---- MODULE Spec2Model ----
(***************************************************************************)
(* KnowHowPages static site generator (generate.py).                       *)
(*                                                                         *)
(* Strings are sequences of ASCII codes, paths are sequences of names      *)
(* (pathlib parts).  The input directory, the global assets directory and  *)
(* the previous content of the output directory are the inputs; the run of *)
(* generate_site is a sequential process whose position is pc.             *)
(***************************************************************************)
EXTENDS Integers, Sequences, FiniteSets, TLC

VARIABLES
    flavour,      \* "posix" or "nt": the pathlib flavour of the platform
    files,        \* regular files under input_dir (paths relative to it)
    empty_dirs,   \* directories under input_dir that hold no entry
    scan,         \* the order in which the filesystem enumerates names
    assets,       \* files under ASSETS_DIR (paths relative to it)
    out_exists,   \* output_dir.exists()
    out,          \* files under output_dir: path -> content
    pc,           \* position of generate_site
    run,          \* number of the current run of generate_site
    tree,         \* local variable tree of generate_site
    todo,         \* the part of the running for-loop still to visit
    pages,        \* the pages assembled by the current run: md path -> page
    written,      \* the output paths written by the current run
    prior,        \* the output paths that existed when a run began
    first_out,    \* the output tree at the end of the first run
    md_text,      \* argument text of md_to_html (a sequence of blocks)
    md_html,      \* result of md_to_html (a sequence of tags)
    md_pc         \* position of the md_to_html call

vars == <<flavour, files, empty_dirs, scan, assets, out_exists, out, pc, run,
          tree, todo, pages, written, prior, first_out, md_text, md_html, md_pc>>

(***************************************************************************)
(* Bounds                                                                  *)
(***************************************************************************)
MaxFiles == 2
MaxRuns == 2
MaxBlocks == 3

(***************************************************************************)
(* Names                                                                   *)
(***************************************************************************)
Dot == <<46>>
Slash == <<47>>
DotDot == <<46, 46>>
SufMd == <<46, 109, 100>>
SufHtml == <<46, 104, 116, 109, 108>>
N_a_md == <<97, 46, 109, 100>>
N_A_md == <<65, 46, 109, 100>>
N_a_b_md == <<97, 45, 98, 46, 109, 100>>
N_md == <<46, 109, 100>>
N_index_md == <<105, 110, 100, 101, 120, 46, 109, 100>>
N_b_MD == <<98, 46, 77, 68>>
N_a_html == <<97, 46, 104, 116, 109, 108>>
N_d == <<100>>
N_da == <<100, 97>>
N_e == <<101>>
N_content == <<99, 111, 110, 116, 101, 110, 116>>
N_index_html == <<105, 110, 100, 101, 120, 46, 104, 116, 109, 108>>
N_static == <<115, 116, 97, 116, 105, 99>>
N_style_css == <<115, 116, 121, 108, 101, 46, 99, 115, 115>>
N_stale_html == <<115, 116, 97, 108, 101, 46, 104, 116, 109, 108>>
N_assets == <<97, 115, 115, 101, 116, 115>>
N_www == <<119, 119, 119>>
N_site == <<115, 105, 116, 101>>
N_favicon == <<102, 97, 118, 105, 99, 111, 110, 46, 105, 99, 111>>

\* the names the filesystems of the model hold, in one enumeration order
NameOrder == <<N_md, N_a_b_md, N_A_md, N_a_md, N_index_md, N_b_MD, N_a_html,
               N_da, N_d, N_e, N_favicon>>

\* the files an input directory is drawn from
FileUniverse == { <<N_a_md>>, <<N_A_md>>, <<N_a_b_md>>, <<N_md>>, <<N_index_md>>,
                  <<N_b_MD>>, <<N_a_html>>, <<N_d, N_a_md>>, <<N_da, N_e, N_a_md>> }

AssetUniverse == { <<N_a_html>>, <<N_favicon>> }

NoPath == <<>>
input_dir == <<N_content>>
ASSETS_DIR == <<N_assets>>

(***************************************************************************)
(* str and pathlib                                                         *)
(***************************************************************************)
Max(S) == CHOOSE m \in S : \A k \in S : k <= m

lower_ch(c) == IF c >= 65 /\ c <= 90 THEN c + 32 ELSE c

lower(s) == [k \in 1..Len(s) |-> lower_ch(s[k])]

RECURSIVE str_lt(_, _)
str_lt(s, t) ==
    IF t = <<>> THEN FALSE
    ELSE IF s = <<>> THEN TRUE
    ELSE IF Head(s) # Head(t) THEN Head(s) < Head(t)
    ELSE str_lt(Tail(s), Tail(t))

str_le(s, t) == s = t \/ str_lt(s, t)

startswith(s, t) == Len(t) <= Len(s) /\ SubSeq(s, 1, Len(t)) = t

endswith(s, t) == Len(t) <= Len(s) /\ SubSeq(s, Len(s) - Len(t) + 1, Len(s)) = t

rfind_dot(name) ==
    LET S == {k \in 1..Len(name) : name[k] = 46}
    IN  IF S = {} THEN 0 ELSE Max(S)

suffix(name) ==
    LET k == rfind_dot(name)
    IN  IF k > 1 /\ k < Len(name) THEN SubSeq(name, k, Len(name)) ELSE <<>>

stem(name) ==
    LET k == rfind_dot(name)
    IN  IF k > 1 /\ k < Len(name) THEN SubSeq(name, 1, k - 1) ELSE name

name_with_suffix(name, suf) ==
    IF suffix(name) = <<>> THEN name \o suf
    ELSE SubSeq(name, 1, Len(name) - Len(suffix(name))) \o suf

name_of(p) == p[Len(p)]

parent(p) == SubSeq(p, 1, Len(p) - 1)

with_suffix(p, suf) == parent(p) \o <<name_with_suffix(name_of(p), suf)>>

RECURSIVE join(_, _)
join(sep, parts) ==
    IF parts = <<>> THEN <<>>
    ELSE IF Len(parts) = 1 THEN parts[1]
    ELSE parts[1] \o sep \o join(sep, Tail(parts))

as_posix(p) == join(Slash, p)

casefold(s) == IF flavour = "nt" THEN lower(s) ELSE s

casefold_parts(p) == [k \in 1..Len(p) |-> casefold(p[k])]

path_eq(p, q) == casefold_parts(p) = casefold_parts(q)

\* a comparison of the path strings instead of the parts
is_relative_to_str(p, other) == startswith(as_posix(p), as_posix(other))

is_relative_to(p, other) ==
    /\ Len(other) <= Len(p)
    /\ casefold_parts(SubSeq(p, 1, Len(other))) = casefold_parts(other)

relative_to(p, other) == SubSeq(p, Len(other) + 1, Len(p))

\* pattern "*.md" of Path.rglob: the flavour decides the case sensitivity
match_md(name) == endswith(casefold(name), casefold(SufMd))

(***************************************************************************)
(* The input directory as pathlib sees it                                  *)
(***************************************************************************)
Reverse(s) == [k \in 1..Len(s) |-> s[Len(s) + 1 - k]]

ScanOrders == { NameOrder, Reverse(NameOrder) }

\* directories under input_dir (relative): the ancestors of the files and the
\* empty directories
all_dirs == UNION { { SubSeq(p, 1, k) : k \in 1..(Len(p) - 1) } : p \in files }
            \cup empty_dirs

is_file(p) == startswith(p, input_dir) /\ relative_to(p, input_dir) \in files

is_dir(p) == p = input_dir \/
             (startswith(p, input_dir) /\ relative_to(p, input_dir) \in all_dirs)

exists(p) == is_file(p) \/ is_dir(p)

\* Path.iterdir: the entries of a directory, in the order the filesystem
\* enumerates them
iterdir(dir, order) ==
    LET present == SelectSeq(order, LAMBDA n : exists(dir \o <<n>>))
    IN  [k \in 1..Len(present) |-> dir \o <<present[k]>>]

(***************************************************************************)
(* sorted(..., key=lambda p: (p.is_file(), p.name.lower()))                *)
(***************************************************************************)
sort_key(p) == <<is_file(p), lower(name_of(p))>>

key_lt(k1, k2) ==
    \/ k1[1] = FALSE /\ k2[1] = TRUE
    \/ k1[1] = k2[1] /\ str_lt(k1[2], k2[2])

\* insertion behind the entries whose key is not greater: sorted is stable
RECURSIVE insert_sorted(_, _)
insert_sorted(s, x) ==
    IF s = <<>> THEN <<x>>
    ELSE IF key_lt(sort_key(x), sort_key(Head(s))) THEN <<x>> \o s
    ELSE <<Head(s)>> \o insert_sorted(Tail(s), x)

RECURSIVE sorted(_)
sorted(s) ==
    IF s = <<>> THEN <<>>
    ELSE insert_sorted(sorted(SubSeq(s, 1, Len(s) - 1)), s[Len(s)])

(***************************************************************************)
(* class Node, build_tree                                                  *)
(***************************************************************************)
Node(name, path, isdir) ==
    [name |-> name, path |-> path, is_dir |-> isdir, children |-> <<>>]

RECURSIVE build_tree_in(_, _)
RECURSIVE add_children(_, _)
add_children(listed, order) ==
    IF listed = <<>> THEN <<>>
    ELSE LET child == Head(listed)
             rest == add_children(Tail(listed), order)
         IN  IF is_dir(child) THEN <<build_tree_in(child, order)>> \o rest
             ELSE IF lower(suffix(name_of(child))) = SufMd
                  THEN <<Node(stem(name_of(child)), child, FALSE)>> \o rest
                  ELSE rest

\* build_tree on a filesystem that enumerates its entries in the given order
build_tree_in(root, order) ==
    [Node(name_of(root), root, TRUE) EXCEPT
        !.children = add_children(sorted(iterdir(root, order)), order)]

build_tree(root) == build_tree_in(root, scan)

(***************************************************************************)
(* render_nav: the markup is a sequence of elements; the field node is the *)
(* path of the node an element was rendered from                           *)
(***************************************************************************)
RECURSIVE render_nav(_, _, _, _)
RECURSIVE render_children(_, _, _, _)
render_children(children, current_md, root, depth) ==
    IF children = <<>> THEN <<>>
    ELSE render_nav(Head(children), current_md, root, depth) \o
         render_children(Tail(children), current_md, root, depth)

render_nav(node, current_md, root, depth) ==
    LET indent_px == depth * 16
        style_attr == IF depth # 0 THEN <<indent_px>> ELSE <<>>
    IN  IF node.is_dir
        THEN LET open_attr == current_md # NoPath /\ is_relative_to(current_md, node.path)
             IN  <<[tag |-> "details", open |-> open_attr, active |-> FALSE,
                    style |-> style_attr, name |-> node.name, href |-> <<>>,
                    node |-> node.path]>> \o
                 render_children(node.children, current_md, root, depth + 1) \o
                 <<[tag |-> "/details", open |-> FALSE, active |-> FALSE,
                    style |-> <<>>, name |-> <<>>, href |-> <<>>, node |-> node.path]>>
        ELSE LET rel_md_path == relative_to(node.path, root)
                 html_href == with_suffix(rel_md_path, SufHtml)
                 class_attr == current_md # NoPath /\
                               path_eq(rel_md_path, relative_to(current_md, root))
             IN  <<[tag |-> "a", open |-> FALSE, active |-> class_attr,
                    style |-> style_attr, name |-> node.name,
                    href |-> as_posix(html_href), node |-> node.path]>>

(***************************************************************************)
(* md_to_html.  A text is a sequence of blocks, the html a sequence of     *)
(* tags.                                                                   *)
(***************************************************************************)
BlockKinds == { "para", "heading", "fenced", "indented", "jekyll", "html_pre" }

\* re.sub of the {% highlight %} ... {% endhighlight %} blocks
jekyll_to_fenced(text) ==
    [k \in 1..Len(text) |-> IF text[k] = "jekyll" THEN "fenced" ELSE text[k]]

\* what markdown.Markdown with fenced_code and codehilite (use_pygments) emits
convert_block(b) ==
    CASE b = "para" -> <<"<p>", "text", "</p>">>
      [] b = "heading" -> <<"<h1>", "text", "</h1>">>
      [] b \in { "fenced", "indented" } ->
            <<"<div class=codehilite>", "<pre>", "<span></span>", "<code>", "text",
              "</code>", "</pre>", "</div>">>
      [] b = "html_pre" -> <<"<pre>", "<code>", "text", "</code>", "</pre>">>
      [] OTHER -> <<"text">>

RECURSIVE md_convert(_)
md_convert(text) ==
    IF text = <<>> THEN <<>> ELSE convert_block(Head(text)) \o md_convert(Tail(text))

CopyButton == "<button class=copy-btn>"

Min(S) == CHOOSE m \in S : \A k \in S : m <= k

\* the ends of the matches of <pre><code[\s\S]*?</code></pre> that start at k
match_ends(html, k) ==
    IF k + 1 <= Len(html) /\ html[k] = "<pre>" /\ html[k + 1] = "<code>"
    THEN { j \in (k + 2)..Len(html) : html[j - 1] = "</code>" /\ html[j] = "</pre>" }
    ELSE {}

\* re.sub(r"<pre><code[\s\S]*?</code></pre>", _inject, html) from position k
RECURSIVE re_sub_inject(_, _)
re_sub_inject(html, k) ==
    IF k > Len(html) THEN <<>>
    ELSE IF match_ends(html, k) # {}
         THEN LET j == Min(match_ends(html, k))
              IN  <<CopyButton>> \o SubSeq(html, k, j) \o re_sub_inject(html, j + 1)
         ELSE <<html[k]>> \o re_sub_inject(html, k + 1)

md_to_html(text) == re_sub_inject(md_convert(jekyll_to_fenced(text)), 1)

\* extract_title: group 1 of the first <h1-3 ...>(.*?)</h1-3>, <<>> for None
extract_title(html) ==
    LET starts == { k \in 1..Len(html) : html[k] = "<h1>" /\
                        \E j \in (k + 1)..Len(html) : html[j] = "</h1>" }
    IN  IF starts = {} THEN <<>>
        ELSE LET k == Min(starts)
                 j == Min({ i \in (k + 1)..Len(html) : html[i] = "</h1>" })
             IN  SubSeq(html, k + 1, j - 1)

(***************************************************************************)
(* Path.rglob                                                              *)
(***************************************************************************)
RECURSIVE rglob_dirs(_)
RECURSIVE rglob_subdirs(_)
rglob_subdirs(listed) ==
    IF listed = <<>> THEN <<>>
    ELSE (IF is_dir(Head(listed)) THEN rglob_dirs(Head(listed)) ELSE <<>>) \o
         rglob_subdirs(Tail(listed))

\* the directories the recursive wildcard visits: the directory itself, then
\* its sub-directories in enumeration order
rglob_dirs(dir) == <<dir>> \o rglob_subdirs(iterdir(dir, scan))

RECURSIVE rglob_entries(_)
rglob_entries(dirseq) ==
    IF dirseq = <<>> THEN <<>>
    ELSE iterdir(Head(dirseq), scan) \o rglob_entries(Tail(dirseq))

\* input_dir.rglob("*")
rglob_all == rglob_entries(rglob_dirs(input_dir))

\* input_dir.rglob("*.md")
rglob_md == SelectSeq(rglob_all, LAMBDA p : match_md(name_of(p)))

\* ASSETS_DIR.rglob("*"), relative to ASSETS_DIR
rglob_assets ==
    LET present == SelectSeq(scan, LAMBDA n : <<n>> \in assets)
    IN  [k \in 1..Len(present) |-> <<present[k]>>]

(***************************************************************************)
(* Output files                                                            *)
(***************************************************************************)
EmptyOut == [p \in {} |-> 0]

Content(kind, src) ==
    [kind |-> kind, src |-> src, title |-> [heading |-> <<>>, stem |-> <<>>],
     nav |-> <<>>, body |-> <<>>, base_href |-> <<>>, url |-> <<>>]

\* the name under which the output filesystem finds a path
out_key(p) == casefold_parts(p)

write(fs, p, content) ==
    [q \in DOMAIN fs \cup {out_key(p)} |-> IF q = out_key(p) THEN content ELSE fs[q]]

\* a removal that leaves the files in place
rmtree_keep(fs) == fs

\* shutil.rmtree(output_dir)
rmtree(fs) == EmptyOut

StalePath == <<N_stale_html>>

CssPath == <<N_static, N_style_css>>

IndexPath == <<N_index_html>>

\* md_path.read_text(): nested documents hold a heading and a fenced block
read_text(md_path) ==
    IF Len(md_path) > Len(input_dir) + 1 THEN <<"heading", "fenced">>
    ELSE <<"para", "html_pre">>

(***************************************************************************)
(* generate_site                                                           *)
(***************************************************************************)
RECURSIVE repeat(_, _)
repeat(s, n) == IF n <= 0 THEN <<>> ELSE s \o repeat(s, n - 1)

\* the depth counted with the file name
page_depth_parts(rel_md) == Len(rel_md)

page_depth(rel_md) == Len(rel_md) - 1

base_href_of(rel_md) ==
    LET depth == page_depth(rel_md)
    IN  IF depth > 0 THEN repeat(DotDot \o Slash, depth) ELSE Dot \o Slash

\* the nav of a page: render_nav of every child of the root, joined
RECURSIVE nav_of(_, _)
nav_of(children, md_path) ==
    IF children = <<>> THEN <<>>
    ELSE render_nav(Head(children), md_path, input_dir, 0) \o
         nav_of(Tail(children), md_path)

page_of(md_path) ==
    LET rel_md == relative_to(md_path, input_dir)
        body_html == md_to_html(read_text(md_path))
        heading == extract_title(body_html)
    IN  [Content("page", md_path) EXCEPT
            !.title = IF heading # <<>> THEN [heading |-> heading, stem |-> <<>>]
                      ELSE [heading |-> <<>>, stem |-> stem(name_of(md_path))],
            !.nav = nav_of(tree.children, md_path),
            !.body = body_html,
            !.base_href = base_href_of(rel_md)]

NoTree == Node(<<>>, NoPath, FALSE)

enter_index == pc' = "index" /\ todo' = <<>>

enter_gassets ==
    IF rglob_assets # <<>> THEN pc' = "gassets" /\ todo' = rglob_assets
    ELSE enter_index

enter_assets ==
    IF rglob_all # <<>> THEN pc' = "assets" /\ todo' = rglob_all
    ELSE enter_gassets

\* lines 389-397: remove the output directory, create static/ and the css
Clean ==
    /\ pc = "start"
    /\ prior' = prior \cup (IF out_exists THEN DOMAIN out ELSE {})
    /\ out' = write(IF out_exists THEN rmtree(out) ELSE EmptyOut, CssPath,
                    Content("css", NoPath))
    /\ out_exists' = TRUE
    /\ written' = { out_key(CssPath) }
    /\ pages' = EmptyOut
    /\ pc' = "tree"
    /\ UNCHANGED <<flavour, files, empty_dirs, scan, assets, run, tree, todo,
                   first_out, md_text, md_html, md_pc>>

\* line 399, and the entry of the loop of line 401
BuildTree ==
    /\ pc = "tree"
    /\ tree' = build_tree(input_dir)
    /\ IF rglob_md # <<>> THEN pc' = "pages" /\ todo' = rglob_md
       ELSE enter_assets
    /\ UNCHANGED <<flavour, files, empty_dirs, scan, assets, out_exists, out, run,
                   pages, written, prior, first_out, md_text, md_html, md_pc>>

\* lines 401-420: one iteration
WritePage ==
    /\ pc = "pages"
    /\ LET md_path == Head(todo)
           rel_md == relative_to(md_path, input_dir)
           html_out_path == with_suffix(rel_md, SufHtml)
       IN  /\ out' = write(out, html_out_path, page_of(md_path))
           /\ pages' = write(pages, rel_md, page_of(md_path))
           /\ written' = written \cup { out_key(html_out_path) }
    /\ IF Tail(todo) # <<>> THEN pc' = "pages" /\ todo' = Tail(todo)
       ELSE enter_assets
    /\ UNCHANGED <<flavour, files, empty_dirs, scan, assets, out_exists, run, tree,
                   prior, first_out, md_text, md_html, md_pc>>

\* lines 423-427: one iteration
CopyAsset ==
    /\ pc = "assets"
    /\ LET asset == Head(todo)
           dest == relative_to(asset, input_dir)
       IN  IF is_file(asset) /\ lower(suffix(name_of(asset))) \notin { SufMd }
           THEN /\ out' = write(out, dest, Content("copy", asset))
                /\ written' = written \cup { out_key(dest) }
           ELSE UNCHANGED <<out, written>>
    /\ IF Tail(todo) # <<>> THEN pc' = "assets" /\ todo' = Tail(todo)
       ELSE enter_gassets
    /\ UNCHANGED <<flavour, files, empty_dirs, scan, assets, out_exists, run, tree,
                   pages, prior, first_out, md_text, md_html, md_pc>>

\* lines 432-438: one iteration
CopyGlobalAsset ==
    /\ pc = "gassets"
    /\ LET dest == Head(todo)
       IN  /\ out' = write(out, dest, Content("copy", ASSETS_DIR \o dest))
           /\ written' = written \cup { out_key(dest) }
    /\ IF Tail(todo) # <<>> THEN pc' = "gassets" /\ todo' = Tail(todo)
       ELSE enter_index
    /\ UNCHANGED <<flavour, files, empty_dirs, scan, assets, out_exists, run, tree,
                   pages, prior, first_out, md_text, md_html, md_pc>>

\* lines 441-445
WriteIndex ==
    /\ pc = "index"
    /\ LET first_page == IF rglob_md # <<>> THEN Head(rglob_md) ELSE NoPath
           first_html == with_suffix(relative_to(first_page, input_dir), SufHtml)
           result == IF first_page # NoPath
                     THEN write(out, IndexPath,
                                [Content("redirect", NoPath) EXCEPT
                                    !.url = as_posix(first_html)])
                     ELSE out
       IN  /\ out' = result
           /\ written' = IF first_page # NoPath THEN written \cup { out_key(IndexPath) }
                         ELSE written
           /\ first_out' = IF run = 1 THEN result ELSE first_out
    /\ pc' = "done"
    /\ UNCHANGED <<flavour, files, empty_dirs, scan, assets, out_exists, run, tree,
                   todo, pages, prior, md_text, md_html, md_pc>>

\* generate_site is called again on the unchanged input
Rerun ==
    /\ pc = "done"
    /\ run < MaxRuns
    /\ run' = run + 1
    /\ pc' = "start"
    /\ tree' = NoTree
    /\ UNCHANGED <<flavour, files, empty_dirs, scan, assets, out_exists, out, todo,
                   pages, written, prior, first_out, md_text, md_html, md_pc>>

PriorOutputs ==
    { <<FALSE, EmptyOut>>,
      <<TRUE, write(EmptyOut, StalePath, Content("stale", NoPath))>> }

case_clash(S) ==
    \E p, q \in S : p # q /\ [k \in 1..Len(p) |-> lower(p[k])] = [k \in 1..Len(q) |-> lower(q[k])]

Init ==
    /\ flavour \in { "posix", "nt" }
    /\ files \in { S \in SUBSET FileUniverse :
                      Cardinality(S) <= MaxFiles /\ (flavour = "nt" => ~case_clash(S)) }
    /\ empty_dirs \in { E \in SUBSET { <<N_d>> } :
                          \A e \in E : \A p \in files : ~startswith(p, e) }
    /\ scan \in ScanOrders
    /\ assets \in SUBSET AssetUniverse
    /\ \E po \in PriorOutputs : out_exists = po[1] /\ out = po[2]
    /\ pc = "start"
    /\ run = 1
    /\ tree = NoTree
    /\ todo = <<>>
    /\ pages = EmptyOut
    /\ written = {}
    /\ prior = {}
    /\ first_out = EmptyOut
    /\ md_text = <<>>
    /\ md_html = <<>>
    /\ md_pc = "idle"

Next ==
    \/ Clean
    \/ BuildTree
    \/ WritePage
    \/ CopyAsset
    \/ CopyGlobalAsset
    \/ WriteIndex
    \/ Rerun

Spec == Init /\ [][Next]_vars

(***************************************************************************)
(* md_to_html on any text                                                  *)
(***************************************************************************)
RECURSIVE Texts(_)
Texts(n) ==
    IF n = 0 THEN { <<>> }
    ELSE Texts(n - 1) \cup
         { Append(t, b) : <<t, b>> \in { tb \in Texts(n - 1) \X BlockKinds : Len(tb[1]) = n - 1 } }

InitMd ==
    /\ flavour = "posix"
    /\ files = {}
    /\ empty_dirs = {}
    /\ scan = NameOrder
    /\ assets = {}
    /\ out_exists = FALSE
    /\ out = EmptyOut
    /\ pc = "idle"
    /\ run = 1
    /\ tree = NoTree
    /\ todo = <<>>
    /\ pages = EmptyOut
    /\ written = {}
    /\ prior = {}
    /\ first_out = EmptyOut
    /\ md_text \in Texts(MaxBlocks)
    /\ md_html = <<>>
    /\ md_pc = "call"

\* the call md_to_html(text, formatter)
MdToHtml ==
    /\ md_pc = "call"
    /\ md_html' = md_to_html(md_text)
    /\ md_pc' = "return"
    /\ UNCHANGED <<flavour, files, empty_dirs, scan, assets, out_exists, out, pc, run,
                   tree, todo, pages, written, prior, first_out, md_text>>

NextMd == MdToHtml

SpecMd == InitMd /\ [][NextMd]_vars

(***************************************************************************)
(* Notions the properties are stated in                                    *)
(***************************************************************************)
Elems(s) == { s[k] : k \in DOMAIN s }

RECURSIVE tree_nodes(_)
tree_nodes(n) == {n} \cup UNION { tree_nodes(c) : c \in Elems(n.children) }

dir_nodes == { n \in tree_nodes(tree) : n.is_dir }

doc_nodes == { n \in tree_nodes(tree) : ~n.is_dir }

\* the directories above a path, up to and without input_dir
RECURSIVE dirs_above(_)
dirs_above(p) ==
    IF Len(p) <= Len(input_dir) + 1 THEN {}
    ELSE { parent(p) } \cup dirs_above(parent(p))

\* the segments of a reference: split at "/"
RECURSIVE split_from(_, _, _)
split_from(s, k, acc) ==
    IF k > Len(s) THEN <<acc>>
    ELSE IF s[k] = 47 THEN <<acc>> \o split_from(s, k + 1, <<>>)
    ELSE split_from(s, k + 1, Append(acc, s[k]))

split(s) == split_from(s, 1, <<>>)

\* a reference resolved from a directory: "." and "" stay, ".." leaves
RECURSIVE walk(_, _)
walk(dir, segs) ==
    IF segs = <<>> THEN dir
    ELSE IF Head(segs) \in { <<>>, Dot } THEN walk(dir, Tail(segs))
    ELSE IF Head(segs) = DotDot THEN walk(parent(dir), Tail(segs))
    ELSE walk(Append(dir, Head(segs)), Tail(segs))

\* where the output root is served
SiteRoot == <<N_www, N_site>>

\* the location a browser reaches from the page at out_path through the
\* <base href> of the page and the href of a link
resolve(out_path, base_href, href) ==
    walk(walk(parent(SiteRoot \o out_path), split(base_href)), split(href))

output_path(rel_md) == with_suffix(rel_md, SufHtml)

links(page) == { el \in Elems(page.nav) : el.tag = "a" }

hrefs(markup) == [k \in 1..Len(markup) |-> markup[k].href]

DepthsTried == 0..3

(***************************************************************************)
(* C1: in every directory node of the tree of build_tree the children list *)
(* all directories before all documents, and each of the two groups is in  *)
(* non-decreasing order of the lower-cased display name (Node.name).       *)
(***************************************************************************)
C1_ChildrenByDisplayName ==
    tree # NoTree =>
        \A n \in dir_nodes : \A i, j \in 1..Len(n.children) :
            i < j =>
                /\ n.children[i].is_dir \/ ~n.children[j].is_dir
                /\ n.children[i].is_dir = n.children[j].is_dir =>
                       str_le(lower(n.children[i].name), lower(n.children[j].name))

(***************************************************************************)
(* C2: in the navigation of every page a directory is open if and only if  *)
(* the document of the page lies underneath it, at any depth.              *)
(***************************************************************************)
C2_OpenIffAncestor ==
    \A rel \in DOMAIN pages : \A el \in Elems(pages[rel].nav) :
        el.tag = "details" => (el.open <=> el.node \in dirs_above(pages[rel].src))

\* a page two directories deep whose navigation shows an open ancestor and a
\* closed sibling whose name is a proper prefix of the ancestor's name
C2_Witness ==
    \E rel \in DOMAIN pages :
        /\ Len(rel) = 3
        /\ \E el, sib \in Elems(pages[rel].nav) :
              /\ el.tag = "details" /\ sib.tag = "details"
              /\ el.open /\ ~sib.open
              /\ parent(el.node) = parent(sib.node)
              /\ el.name # sib.name /\ startswith(el.name, sib.name)

(***************************************************************************)
(* C3: the navigation of every generated page holds exactly one active     *)
(* link, and it is the link of the document the page was generated from.   *)
(***************************************************************************)
C3_OneActiveLink ==
    \A rel \in DOMAIN pages :
        LET active == { el \in links(pages[rel]) : el.active }
        IN  /\ Cardinality(active) = 1
            /\ \A el \in active : el.node = pages[rel].src

(***************************************************************************)
(* C4: from every generated page, the href of every link of its navigation,*)
(* resolved through the base href of the page, is the output path of the   *)
(* linked document; the href does not depend on the render depth.          *)
(***************************************************************************)
C4_LinksResolve ==
    pc = "done" =>
        /\ \A rel \in DOMAIN pages : \A el \in links(pages[rel]) :
               resolve(output_path(relative_to(pages[rel].src, input_dir)),
                       pages[rel].base_href, el.href)
                 = SiteRoot \o output_path(relative_to(el.node, input_dir))
        /\ \A rel \in DOMAIN pages : \A k \in 1..Len(tree.children) :
               \A d \in DepthsTried :
                   hrefs(render_nav(tree.children[k], pages[rel].src, input_dir, d))
                     = hrefs(render_nav(tree.children[k], pages[rel].src, input_dir, 0))

\* a finished run with a page two directories deep that links to a document
\* in the root
C4_Witness ==
    \E rel \in DOMAIN pages :
        /\ Len(rel) = 3
        /\ \E el \in links(pages[rel]) : Len(el.node) = Len(input_dir) + 1
        /\ pc = "done"

(***************************************************************************)
(* C5: after generate_site the output holds, for every document found      *)
(* under the input directory, the page assembled for it at the document's  *)
(* path with the extension .html; no later step has replaced it.           *)
(***************************************************************************)
C5_PagesSurvive ==
    pc = "done" =>
        \A md_path \in Elems(rglob_md) :
            LET rel == relative_to(md_path, input_dir)
            IN  /\ out_key(rel) \in DOMAIN pages
                /\ out_key(output_path(rel)) \in DOMAIN out
                /\ out[out_key(output_path(rel))] = pages[out_key(rel)]

(***************************************************************************)
(* C6: a second run on the unchanged input leaves the output tree of the   *)
(* first run, and after every run the output holds nothing but the files   *)
(* the run wrote, whatever the output directory held before.               *)
(***************************************************************************)
C6_Idempotent ==
    pc = "done" =>
        /\ run > 1 => out = first_out
        /\ DOMAIN out = written

\* the end of a second run, after a first run that found a stale file
C6_Witness ==
    /\ pc = "done"
    /\ run = 2
    /\ out_key(StalePath) \in prior
    /\ \E p \in DOMAIN out : out[p].kind = "page"
    /\ \E p \in DOMAIN out : out[p].kind = "copy"

(***************************************************************************)
(* C7: md_to_html inserts exactly one copy button per code block,          *)
(* immediately before the block, and no other copy button.                 *)
(***************************************************************************)
code_block_starts(html) ==
    { k \in 1..Len(html) :
        \/ html[k] = "<div class=codehilite>"
        \/ html[k] = "<pre>" /\ (k = 1 \/ html[k - 1] # "<div class=codehilite>") }

C7_OneButtonPerBlock ==
    md_pc = "return" =>
        LET buttons == { k \in 1..Len(md_html) : md_html[k] = CopyButton }
            blocks == code_block_starts(md_html)
        IN  /\ Cardinality(buttons) = Cardinality(blocks)
            /\ Cardinality(blocks) =
                 Cardinality({ k \in 1..Len(md_text) : md_text[k] \notin { "para", "heading" } })
            /\ \A k \in blocks : k > 1 /\ md_html[k - 1] = CopyButton
            /\ \A k \in buttons : k + 1 \in blocks

(***************************************************************************)
(* C8: when the input holds a document, generate_site ends with exactly    *)
(* one redirect page, index.html at the output root; its target is the     *)
(* output path of the first document of the scan, and the target is a      *)
(* document page of the same run, never the redirect page itself.          *)
(***************************************************************************)
C8_RedirectToPage ==
    (pc = "done" /\ rglob_md # <<>>) =>
        LET first_rel == relative_to(Head(rglob_md), input_dir)
            target == output_path(first_rel)
        IN  /\ { p \in DOMAIN out : out[p].kind = "redirect" } = { out_key(IndexPath) }
            /\ out[out_key(IndexPath)].url = as_posix(target)
            /\ out_key(target) \in DOMAIN out
            /\ out[out_key(target)].kind = "page"
            /\ out[out_key(target)].src = Head(rglob_md)

(***************************************************************************)
(* C9: the children order of build_tree is the same for every order in     *)
(* which the filesystem enumerates the entries of the directories.         *)
(***************************************************************************)
C9_OrderIndependent ==
    tree # NoTree => \A order \in ScanOrders : build_tree_in(input_dir, order) = tree

(***************************************************************************)
(* C10: after generate_site the documents of the tree are the documents a  *)
(* page was written for, and every link of every navigation targets a file *)
(* of the output.                                                          *)
(***************************************************************************)
C10_NoDeadLink ==
    pc = "done" =>
        /\ { n.path : n \in doc_nodes } = { pages[rel].src : rel \in DOMAIN pages }
        /\ \A rel \in DOMAIN pages : \A el \in links(pages[rel]) :
               out_key(output_path(relative_to(el.node, input_dir))) \in DOMAIN out

====
